---- MODULE Spec2Model ----
(***************************************************************************)
(* Terrain generation of WorldBuilder/worldmap.py: WorldGenerator loads a  *)
(* tile configuration, synthesises the fields and runs the TerrainWFC      *)
(* solver (select / collapse / propagate driver, final terrain build),     *)
(* then RiverGenerator traces and erodes rivers and CivilizationPlacer     *)
(* places the settlements.                                                 *)
(***************************************************************************)
EXTENDS Integers, Sequences, FiniteSets, TLC

VARIABLES config, tiles, elevation, temperature, grid, propagate_queue,
          backtrack_count, pc, cur, terrain, resets,
          \* RiverGenerator / generate_rivers
          erosion, rivers, sources, untraced, budget, min_length,
          \* CivilizationPlacer / place_cities
          city_rules, candidates, unexamined, placed_cities,
          \* the seeded random source and the set iteration order of a run
          hashed, hash_order, rng, draw_no, run, first_terrain

rivervars == <<erosion, rivers, sources, untraced, budget, min_length>>

cityvars == <<city_rules, candidates, unexamined, placed_cities>>

seedvars == <<hash_order, rng, draw_no, run, first_terrain>>

\* what the solver's driver steps leave alone
overlay == <<rivervars, cityvars, seedvars>>

vars == <<config, tiles, elevation, temperature, grid, propagate_queue,
          backtrack_count, pc, cur, terrain, resets, hashed, overlay>>

(* ------------------------------ bounds --------------------------------- *)
\* grid size (WorldGenerator(config_path, width, height))
Width == 2
Height == 2
\* elevation values of the synthesised field are 0..MaxElev
MaxElev == 2
\* the reset counter `resets` (history) stops counting at MaxResets
MaxResets == 4
\* grid size of the arrays handed to RiverGenerator on its own
RiverWidth == 3
RiverHeight == 2
\* generate_rivers is called with min_length in 1 .. MaxMinLength
MaxMinLength == 3

\* the settlement maps are CityWidth x CityHeight
CityWidth == 5

CityHeight == 1

\* a uniform draw is one of 0/UResolution .. (UResolution-1)/UResolution
UResolution == 2

(* --------------------------- program constants ------------------------- *)
\* self.backtrack_limit = 3
backtrack_limit == 3
\* temperature = 30 - 0.6*elevation*1000/100
BaseTemperature == 30
LapsePerUnit == 6
\* weight = 1.0, weight *= 0.1 : weights are kept in hundredths
WeightScale == 100
PenaltyDivisor == 10
\* self.elevation[y][x] *= 0.9 : the factor 9/10
ErodeNum == 9
ErodeDen == 10
\* self.elevation[ny][nx] *= 0.95 : the factor 19/20
BankNum == 19
BankDen == 20
\* sources[:min(len(sources), 5)]
MaxSources == 5
\* generate_rivers(min_length=5, ...)
DefaultMinLength == 5
\* if len(placed_cities) >= 3: break
MaxCities == 3
\* search_radius = 3
search_radius == 3

None == "None"
NoCell == <<>>

Cells == (0 .. Width - 1) \X (0 .. Height - 1)

\* row-major scan order: for y in range(height): for x in range(width)
ScanIndex(c) == c[2] * Width + c[1]

\* for dx, dy in [(-1,0), (1,0), (0,-1), (0,1)] with the bounds test
Offsets == << <<-1, 0>>, <<1, 0>>, <<0, -1>>, <<0, 1>> >>

InBounds(x, y) == 0 <= x /\ x < Width /\ 0 <= y /\ y < Height

\* variant that visits the two horizontal offsets only
NeighborSeqHorizontal(c) ==
    LET F[i \in 0 .. 2] ==
            IF i = 0 THEN <<>>
            ELSE LET nx == c[1] + Offsets[i][1]
                     ny == c[2] + Offsets[i][2]
                 IN  IF InBounds(nx, ny) THEN Append(F[i - 1], <<nx, ny>>)
                                         ELSE F[i - 1]
    IN  F[2]

NeighborSeq(c) ==
    LET F[i \in 0 .. 4] ==
            IF i = 0 THEN <<>>
            ELSE LET nx == c[1] + Offsets[i][1]
                     ny == c[2] + Offsets[i][2]
                 IN  IF InBounds(nx, ny) THEN Append(F[i - 1], <<nx, ny>>)
                                         ELSE F[i - 1]
    IN  F[4]

Neighbors(c) == {NeighborSeq(c)[i] : i \in DOMAIN NeighborSeq(c)}

(* --------------------------- configurations ---------------------------- *)
Range(lo, hi) == [min |-> lo, max |-> hi]

Adjacent(req, n) == [type |-> "adjacent", required |-> req, min_count |-> n]

\* a tile whose ranges contain every field value and that has no rules
PlainTile == [name |-> "plain", elevation |-> Range(-1, 10),
              temperature |-> Range(-50, 50)]

GrassTile == [name |-> "grass", elevation |-> Range(0, 1),
              temperature |-> Range(10, 35)]

WaterTile == [name |-> "water", elevation |-> Range(-1, 0),
              temperature |-> Range(0, 35)]

\* like "mountain" of the example configuration: no temperature range
MountainTile == [name |-> "mountain", elevation |-> Range(1, 1)]

BeachTile == [name |-> "beach", elevation |-> Range(0, 1),
              temperature |-> Range(10, 35),
              conditional_rules |-> << Adjacent({"water"}, 1) >>]

\* open water that lies next to water only
LakeTile == [name |-> "water", elevation |-> Range(-1, 0),
             temperature |-> Range(0, 35),
             conditional_rules |-> << Adjacent({"water"}, 1) >>]

\* an empty elevation range (min > max)
RockTile == [name |-> "rock", elevation |-> Range(1, 0),
             temperature |-> Range(10, 35)]

Configs == { << PlainTile >>,
             << GrassTile >>,
             << BeachTile >>,
             << GrassTile, BeachTile >>,
             << WaterTile, BeachTile, GrassTile >>,
             << GrassTile, MountainTile >>,
             << LakeTile, BeachTile >>,
             << RockTile >> }

\* self.tiles = {t['name']: t for t in self.config['tiles']}
TilesOf(cfg) ==
    [n \in {cfg[i].name : i \in DOMAIN cfg} |->
        cfg[CHOOSE i \in DOMAIN cfg :
                /\ cfg[i].name = n
                /\ \A j \in DOMAIN cfg : j > i => cfg[j].name # n]]

HasRules(tile_cfg) == "conditional_rules" \in DOMAIN tile_cfg

RulesOf(tile_cfg) ==
    IF HasRules(tile_cfg)
    THEN {tile_cfg.conditional_rules[i] : i \in DOMAIN tile_cfg.conditional_rules}
    ELSE {}

(* ------------------------------- fields -------------------------------- *)
\* self.temperature = 30 - 0.6*self.elevation*1000/100
Climate(elev) == [c \in Cells |-> BaseTemperature - LapsePerUnit * elev[c]]

ElevOut(tile_cfg, c) ==
    /\ "elevation" \in DOMAIN tile_cfg
    /\ \/ elevation[c] < tile_cfg.elevation.min
       \/ elevation[c] > tile_cfg.elevation.max

TempOut(tile_cfg, c) ==
    /\ "temperature" \in DOMAIN tile_cfg
    /\ \/ temperature[c] < tile_cfg.temperature.min
       \/ temperature[c] > tile_cfg.temperature.max

(* ------------------------------ the grid ------------------------------- *)
\* variant that refills the lists but keeps the collapsed marks
InitGridKeepingMarks(ts) ==
    [c \in Cells |-> [possible |-> DOMAIN ts, collapsed |-> grid[c].collapsed]]

\* TerrainWFC.__init__: every cell {'possible': all tiles, 'collapsed': False}
InitGrid(ts) == [c \in Cells |-> [possible |-> DOMAIN ts, collapsed |-> FALSE]]

NoGrid == [c \in Cells |-> [possible |-> {}, collapsed |-> FALSE]]

Entropy(c) == Cardinality(grid[c].possible)

\* variant of the scan test without `entropy > 0`
SelectableAnyEntropy(c) == ~grid[c].collapsed

\* get_min_entropy_cell: candidates of the scan
Selectable(c) == ~grid[c].collapsed /\ Entropy(c) > 0

\* the first cell in scan order with the least entropy, or NoCell
get_min_entropy_cell ==
    LET cand == {c \in Cells : Selectable(c)}
    IN  IF cand = {} THEN NoCell
        ELSE CHOOSE c \in cand :
                \A d \in cand :
                    \/ Entropy(c) < Entropy(d)
                    \/ Entropy(c) = Entropy(d) /\ ScanIndex(c) <= ScanIndex(d)

\* variant in which a tile out of range gets no weight at all
WeightVanishing(tile, c) ==
    IF ElevOut(tiles[tile], c) \/ TempOut(tiles[tile], c) THEN 0 ELSE WeightScale

\* collapse_cell: the weight of one tile at a cell, in hundredths
Weight(tile, c) ==
    LET w0 == WeightScale
        w1 == IF ElevOut(tiles[tile], c) THEN w0 \div PenaltyDivisor ELSE w0
        w2 == IF TempOut(tiles[tile], c) THEN w1 \div PenaltyDivisor ELSE w1
    IN  w2

RECURSIVE SumWeights(_, _)
SumWeights(S, c) ==
    IF S = {} THEN 0
    ELSE LET t == CHOOSE t \in S : TRUE
         IN  Weight(t, c) + SumWeights(S \ {t}, c)

\* np.random.choice(cell['possible'], p=weights): the tiles that can be drawn
Drawable(c) == {t \in grid[c].possible : Weight(t, c) > 0}

\* collapse_cell returns False
CollapseFails(c) ==
    \/ grid[c].possible = {}
    \/ SumWeights(grid[c].possible, c) = 0

\* variant of the rule test that reads a missing rule list as "requires nothing"
ExcludedMissingRules(tile, neighbor_tile) ==
    /\ tile \in DOMAIN tiles
    /\ \/ ~HasRules(tiles[tile])
       \/ \E rule \in RulesOf(tiles[tile]) :
             rule.type = "adjacent" /\ neighbor_tile \notin rule.required

\* propagate: a collapsed neighbour holding neighbor_tile discards tile
Excluded(tile, neighbor_tile) ==
    /\ tile \in DOMAIN tiles
    /\ HasRules(tiles[tile])
    /\ \E rule \in RulesOf(tiles[tile]) :
          rule.type = "adjacent" /\ neighbor_tile \notin rule.required

\* neighbor['possible'][0] of a collapsed neighbour
TileOf(c) == CHOOSE t \in grid[c].possible : TRUE

\* variant whose loop over the neighbours stops after the offsets (-1,0), (1,0)
ValidTilesHorizontal(c) ==
    {t \in grid[c].possible :
        ~ \E n \in Neighbors(c) :
            n[2] = c[2] /\ grid[n].collapsed /\ Excluded(t, TileOf(n))}

\* propagate: valid_tiles after the loop over the neighbours
ValidTiles(c) ==
    {t \in grid[c].possible :
        ~ \E n \in Neighbors(c) :
            grid[n].collapsed /\ Excluded(t, TileOf(n))}

\* variant that filters collapsed cells too
SkippedNever(c) == FALSE

\* if cell['collapsed']: continue
Skipped(c) == grid[c].collapsed

\* variant that enqueues the neighbours after every round
ChangedAlways(c) == TRUE

\* if old_possible != valid_tiles
Changed(c) == ValidTiles(c) # grid[c].possible

\* variant of the final loop without the else branch (np.empty stays unassigned)
BuildTerrainNoDefault ==
    [c \in Cells |->
        IF grid[c].collapsed /\ grid[c].possible # {}
        THEN TileOf(c) ELSE None]

\* variant whose default is the first configured tile
BuildTerrainFirstTile ==
    [c \in Cells |->
        IF grid[c].collapsed /\ grid[c].possible # {}
        THEN TileOf(c) ELSE config[1].name]

\* generate, lines 267-276: the final terrain
BuildTerrain ==
    [c \in Cells |->
        IF grid[c].collapsed /\ grid[c].possible # {}
        THEN TileOf(c) ELSE "grass"]

(* ------------------------------ the draw ------------------------------- *)
\* the orders in which one process may iterate over a set of these names
Orders(names) ==
    {q \in [1 .. Cardinality(names) -> names] :
        \A i, j \in DOMAIN q : q[i] = q[j] => i = j}

\* list(self.tiles.keys()): the order of the configuration
KeyIndex(t) ==
    CHOOSE i \in DOMAIN config :
        config[i].name = t /\ \A j \in DOMAIN config : j < i => config[j].name # t

\* list(valid_tiles): the order of this process's string hashes
HashIndex(t) == CHOOSE i \in DOMAIN hash_order : hash_order[i] = t

\* the place of a tile in cell['possible'] of cell c
ListIndex(t, c) == IF c \in hashed THEN HashIndex(t) ELSE KeyIndex(t)

\* cell['possible'] as the list collapse_cell iterates over
PossibleList(c) ==
    LET S == grid[c].possible
    IN  [i \in 1 .. Cardinality(S) |->
            CHOOSE t \in S :
                Cardinality({o \in S : ListIndex(o, c) < ListIndex(t, c)}) = i - 1]

\* p.cumsum(): the weight of the first i entries of the list
RECURSIVE CumWeight(_, _, _)
CumWeight(list, i, c) ==
    IF i = 0 THEN 0 ELSE Weight(list[i], c) + CumWeight(list, i - 1, c)

\* np.random.choice(list, p=weights) at the uniform draw u / UResolution:
\* the first entry whose cumulative probability exceeds the draw
DrawnTile(c, u) ==
    LET list == PossibleList(c)
        total == CumWeight(list, Len(list), c)
        Beyond(i) == CumWeight(list, i, c) * UResolution > u * total
    IN  list[CHOOSE i \in DOMAIN list :
                 Beyond(i) /\ \A j \in DOMAIN list : j < i => ~Beyond(j)]

(* ------------------------------- rivers -------------------------------- *)
\* the grid of the arrays handed to RiverGenerator and CivilizationPlacer
\* (self.terrain.shape)
Shape == DOMAIN terrain

\* for dx, dy in [(-1,0), (1,0), (0,-1), (0,1)] with the shape test
ShapeNeighborSeq(c) ==
    SelectSeq([i \in 1 .. 4 |-> <<c[1] + Offsets[i][1], c[2] + Offsets[i][2]>>],
              LAMBDA n : n \in Shape)

ShapeNeighbors(c) ==
    {n \in Shape : \E i \in 1 .. 4 : n = <<c[1] + Offsets[i][1], c[2] + Offsets[i][2]>>}

Pos(n) == IF n > 0 THEN n ELSE 0

Abs(n) == IF n < 0 THEN -n ELSE n

Manhattan(a, b) == Abs(a[1] - b[1]) + Abs(a[2] - b[2])

\* the stored elevation elev * 0.9^n90 * 0.95^n95 of a cell
Stored(c) == [elev |-> elevation[c], n90 |-> erosion[c].n90, n95 |-> erosion[c].n95]

\* exact products: a natural number as its digits to the base Limb, lowest
\* first, without leading zeros
Limb == 1000 * 1000

RECURSIVE TimesCarry(_, _, _)
TimesCarry(x, k, carry) ==
    IF x = <<>> THEN (IF carry = 0 THEN <<>> ELSE <<carry>>)
    ELSE <<(Head(x) * k + carry) % Limb>>
            \o TimesCarry(Tail(x), k, (Head(x) * k + carry) \div Limb)

RECURSIVE TimesPow(_, _, _)
TimesPow(x, k, n) == IF n = 0 THEN x ELSE TimesPow(TimesCarry(x, k, 0), k, n - 1)

Digits(a) == IF a = 0 THEN <<>> ELSE <<a>>

DigitsLess(x, y) ==
    \/ Len(x) < Len(y)
    \/ /\ Len(x) = Len(y)
       /\ \E i \in DOMAIN x :
             x[i] < y[i] /\ \A j \in DOMAIN x : j > i => x[j] = y[j]

\* a * 0.9^d90 * 0.95^d95 against b, both sides cleared of denominators
ScaledLeft(a, d90, d95) ==
    TimesPow(TimesPow(TimesPow(TimesPow(Digits(a),
        ErodeNum, Pos(d90)), ErodeDen, Pos(-d90)),
        BankNum, Pos(d95)), BankDen, Pos(-d95))

ScaledRight(b, d90, d95) ==
    TimesPow(TimesPow(TimesPow(TimesPow(Digits(b),
        ErodeDen, Pos(d90)), ErodeNum, Pos(-d90)),
        BankDen, Pos(d95)), BankNum, Pos(-d95))

\* v < w on stored elevations (elevations are not negative)
ElevLess(v, w) ==
    IF v.n90 = w.n90 /\ v.n95 = w.n95 THEN v.elev < w.elev
    ELSE DigitsLess(ScaledLeft(v.elev, v.n90 - w.n90, v.n95 - w.n95),
                    ScaledRight(w.elev, v.n90 - w.n90, v.n95 - w.n95))

ElevEqual(v, w) == ~ElevLess(v, w) /\ ~ElevLess(w, v)

\* find_sources(terrain_type)
find_sources(terrain_type) == {c \in Shape : terrain[c] = terrain_type}

\* variant of the downhill test that compares the wrong way round
UphillNeighbors(pos) ==
    SelectSeq(ShapeNeighborSeq(pos), LAMBDA n : ElevLess(Stored(pos), Stored(n)))

\* variant that looks at the diagonal neighbours as well
DownhillAround(pos) ==
    SelectSeq(ShapeNeighborSeq(pos)
                 \o SelectSeq(<< <<pos[1] - 1, pos[2] - 1>>, <<pos[1] + 1, pos[2] - 1>>,
                                 <<pos[1] - 1, pos[2] + 1>>, <<pos[1] + 1, pos[2] + 1>> >>,
                              LAMBDA n : n \in Shape),
              LAMBDA n : ElevLess(Stored(n), Stored(pos)))

\* get_downhill_neighbors(pos)
get_downhill_neighbors(pos) ==
    SelectSeq(ShapeNeighborSeq(pos), LAMBDA n : ElevLess(Stored(n), Stored(pos)))

SeqSet(q) == {q[i] : i \in DOMAIN q}

\* variant that takes the first downhill neighbour
FirstOf(neighbors) == neighbors[1]

\* min(neighbors, key=elevation): the first of the lowest
LowestOf(neighbors) ==
    neighbors[CHOOSE i \in DOMAIN neighbors :
        /\ \A j \in DOMAIN neighbors : ~ElevLess(Stored(neighbors[j]), Stored(neighbors[i]))
        /\ \A j \in DOMAIN neighbors :
              j < i => ElevLess(Stored(neighbors[i]), Stored(neighbors[j]))]

\* variant of the loop that tests the destination before it appends
RECURSIVE RiverPathStopsShort(_, _)
RiverPathStopsShort(path, destination_type) ==
    LET current == path[Len(path)]
        neighbors == SelectSeq(get_downhill_neighbors(current),
                               LAMBDA n : n \notin SeqSet(path))
    IN  IF neighbors = <<>> THEN path
        ELSE LET next_pos == LowestOf(neighbors)
             IN  IF terrain[next_pos] = destination_type THEN path
                 ELSE RiverPathStopsShort(Append(path, next_pos), destination_type)

\* find_river_path: the loop, with path so far and current = its last cell
RECURSIVE RiverPathFrom(_, _)
RiverPathFrom(path, destination_type) ==
    LET current == path[Len(path)]
        neighbors == SelectSeq(get_downhill_neighbors(current),
                               LAMBDA n : n \notin SeqSet(path))
    IN  IF neighbors = <<>> THEN path
        ELSE LET next_pos == LowestOf(neighbors)
                 longer == Append(path, next_pos)
             IN  IF terrain[next_pos] = destination_type THEN longer
                 ELSE RiverPathFrom(longer, destination_type)

find_river_path(start, destination_type) ==
    RiverPathFrom(<<start>>, destination_type)

\* variant that leaves the erosion of a path for later
ErosionDeferred(path) == erosion

\* apply_river_erosion: the factors a path adds to every cell
ErodedBy(path) ==
    [c \in Shape |->
        [n90 |-> erosion[c].n90 + Cardinality({i \in DOMAIN path : path[i] = c}),
         n95 |-> erosion[c].n95
                   + Cardinality({i \in DOMAIN path : c \in ShapeNeighbors(path[i])})]]

\* variant that leaves the terminus tile as it is
RelabelledButWater(path) ==
    [c \in Shape |->
        IF c \in SeqSet(path) /\ terrain[c] # "water" THEN "river" ELSE terrain[c]]

\* apply_river_erosion: self.terrain[y][x] = 'river'
RelabelledBy(path) ==
    [c \in Shape |-> IF c \in SeqSet(path) THEN "river" ELSE terrain[c]]

Min(a, b) == IF a < b THEN a ELSE b

\* variant without the cap on the number of sources
SelectedCountAll(n) == n

\* min(len(sources), 5)
SelectedCount(n) == Min(n, MaxSources)

\* variant that erodes every traced path
AcceptedAlways(path) == TRUE

\* if len(path) >= min_length
Accepted(path) == Len(path) >= min_length

(* ----------------------------- settlements ----------------------------- *)
\* variant that searches the whole map
WholeMap(c) == Shape

\* for dx in range(-search_radius, search_radius + 1): for dy in ...
Window(c) ==
    {n \in Shape : /\ Abs(n[1] - c[1]) <= search_radius
                   /\ Abs(n[2] - c[2]) <= search_radius}

\* check_resources(x, y)
check_resources(c) ==
    \A resource \in city_rules.required_resources :
        \E n \in Window(c) : terrain[n] = resource

\* (x - cx) ** 2 + (y - cy) ** 2
SquaredDistance(a, b) ==
    (a[1] - b[1]) * (a[1] - b[1]) + (a[2] - b[2]) * (a[2] - b[2])

\* variant with the comparison turned round
FartherThan(a, b) ==
    SquaredDistance(a, b) > city_rules.min_distance * city_rules.min_distance

\* variant that also rejects a candidate at exactly min_distance
CloserOrEqual(a, b) ==
    SquaredDistance(a, b) <= city_rules.min_distance * city_rules.min_distance

\* distance < min_distance, for the square root of an integer against an
\* integer min_distance
CloserThan(a, b) ==
    SquaredDistance(a, b) < city_rules.min_distance * city_rules.min_distance

\* variant that accepts every candidate
DistanceUnchecked(c, placed) == TRUE

\* check_distance_to_other_cities(x, y, placed_cities)
check_distance_to_other_cities(c, placed) ==
    \A city \in placed : ~CloserThan(c, city)

\* find_city_candidates()
find_city_candidates ==
    {c \in Shape : terrain[c] = "grass" /\ check_resources(c)}

\* variant that relabels the cells around the settlement as well
SettledWithSurroundings(candidate) ==
    [c \in Shape |->
        IF c = candidate \/ c \in ShapeNeighbors(candidate)
        THEN "ancient_city" ELSE terrain[c]]

\* self.terrain[y][x] = 'ancient_city'
Settled(candidate) == [terrain EXCEPT ![candidate] = "ancient_city"]

\* variant without the cap
CapNever(placed) == FALSE

\* if len(placed_cities) >= 3: break
CapReached(placed) == Cardinality(placed) >= MaxCities

(* ------------------------------ actions -------------------------------- *)
\* before generate_rivers: nothing eroded, nothing traced
NoRivers(cells) ==
    /\ erosion = [c \in cells |-> [n90 |-> 0, n95 |-> 0]]
    /\ rivers = <<>>
    /\ sources = {}
    /\ untraced = {}
    /\ budget = 0

\* before place_cities
NoCities ==
    /\ city_rules = [min_distance |-> 0, required_resources |-> {}]
    /\ candidates = {}
    /\ unexamined = {}
    /\ placed_cities = {}

\* a run whose random draws are not recorded
NoSeed ==
    /\ hash_order = <<>>
    /\ rng = <<>>
    /\ draw_no = 0
    /\ run = 1
    /\ first_terrain = <<>>

Init ==
    /\ config \in Configs
    /\ tiles = <<>>
    /\ elevation = [c \in Cells |-> 0]
    /\ temperature = [c \in Cells |-> 0]
    /\ grid = NoGrid
    /\ propagate_queue = <<>>
    /\ backtrack_count = 0
    /\ pc = "load"
    /\ cur = NoCell
    /\ terrain = [c \in Cells |-> "ocean"]
    /\ resets = 0
    /\ hashed = {}
    /\ NoRivers(Cells)
    /\ min_length = DefaultMinLength
    /\ NoCities
    /\ NoSeed

\* WorldGenerator.__init__: load_config, initialize_world
LoadConfig ==
    /\ pc = "load"
    /\ tiles' = TilesOf(config)
    /\ elevation' = [c \in Cells |-> 0]
    /\ temperature' = [c \in Cells |-> 0]
    /\ terrain' = [c \in Cells |-> "ocean"]
    /\ pc' = "fields"
    /\ UNCHANGED <<config, grid, propagate_queue, backtrack_count, cur, resets>>
    /\ UNCHANGED <<hashed, overlay>>

\* generate_continent, calculate_climate: the elevation field is flat but
\* for at most one cell; the temperature follows from it
SynthesizeFields ==
    /\ pc = "fields"
    /\ \E odd \in Cells, v \in 0 .. MaxElev :
          /\ elevation' = [c \in Cells |-> IF c = odd THEN v ELSE 0]
          /\ temperature' = Climate(elevation')
    /\ pc' = "wfc"
    /\ UNCHANGED <<config, tiles, grid, propagate_queue, backtrack_count, cur,
                   terrain, resets>>
    /\ UNCHANGED <<hashed, overlay>>

\* apply_terrain_rules: TerrainWFC(config, width, height), then generate starts
StartWFC ==
    /\ pc = "wfc"
    /\ tiles' = TilesOf(config)
    /\ grid' = InitGrid(TilesOf(config))
    /\ propagate_queue' = <<>>
    /\ backtrack_count' = 0
    /\ pc' = "select"
    /\ UNCHANGED <<config, elevation, temperature, cur, terrain, resets>>
    /\ hashed' = {}
    /\ UNCHANGED overlay

\* generate: cell_pos = self.get_min_entropy_cell(); if not cell_pos: break
Select ==
    /\ pc = "select"
    /\ cur' = get_min_entropy_cell
    /\ pc' = IF get_min_entropy_cell = NoCell THEN "build" ELSE "collapse"
    /\ UNCHANGED <<config, tiles, elevation, temperature, grid, propagate_queue,
                   backtrack_count, terrain, resets>>
    /\ UNCHANGED <<hashed, overlay>>

\* variant that resets on every failed collapse
LimitIgnored(count) == TRUE

\* if backtrack_count > self.backtrack_limit
LimitExceeded(count) == count > backtrack_limit

\* variant that marks the cell without narrowing its list
MarkedOnly(chosen) == [possible |-> grid[cur].possible, collapsed |-> TRUE]

\* cell['possible'] = [chosen]; cell['collapsed'] = True
CollapsedTo(chosen) == [possible |-> {chosen}, collapsed |-> TRUE]

\* generate: success = self.collapse_cell(x, y) and the failure branch;
\* choices are the tiles np.random.choice can return
CollapseCell(choices) ==
    /\ pc = "collapse"
    /\ IF CollapseFails(cur)
       THEN /\ IF LimitExceeded(backtrack_count + 1)
               THEN /\ tiles' = TilesOf(config)
                    /\ grid' = InitGrid(TilesOf(config))
                    /\ propagate_queue' = <<>>
                    /\ backtrack_count' = 0
                    /\ resets' = IF resets < MaxResets THEN resets + 1 ELSE resets
                    /\ hashed' = {}
               ELSE /\ backtrack_count' = backtrack_count + 1
                    /\ UNCHANGED <<tiles, grid, propagate_queue, resets, hashed>>
            /\ pc' = "select"
       ELSE /\ \E chosen \in choices :
                  grid' = [grid EXCEPT ![cur] = CollapsedTo(chosen)]
            /\ hashed' = hashed \ {cur}
            /\ propagate_queue' = propagate_queue \o NeighborSeq(cur)
            /\ pc' = "propagate"
            /\ UNCHANGED <<tiles, backtrack_count, resets>>
    /\ UNCHANGED <<config, elevation, temperature, cur, terrain>>

\* the draw of an unseeded generator: any tile of positive weight
Collapse ==
    /\ CollapseCell(Drawable(cur))
    /\ UNCHANGED overlay

\* propagate: one round of `while self.propagate_queue`
PropagateStep ==
    /\ pc = "propagate"
    /\ propagate_queue # <<>>
    /\ LET c == Head(propagate_queue)
           rest == Tail(propagate_queue)
       IN  IF Skipped(c)
           THEN /\ propagate_queue' = rest
                /\ UNCHANGED <<grid, hashed>>
           ELSE /\ grid' = [grid EXCEPT ![c].possible = ValidTiles(c)]
                /\ hashed' = hashed \cup {c}
                /\ propagate_queue' =
                      IF Changed(c)
                      THEN rest \o NeighborSeq(c) ELSE rest
    /\ UNCHANGED <<config, tiles, elevation, temperature, backtrack_count, pc,
                   cur, terrain, resets>>
    /\ UNCHANGED overlay

\* variant in which propagate returns with a cell still queued
PropagateReturnsEarly ==
    /\ pc = "propagate"
    /\ Len(propagate_queue) <= 1
    /\ pc' = "select"
    /\ UNCHANGED <<config, tiles, elevation, temperature, grid, propagate_queue,
                   backtrack_count, cur, terrain, resets>>
    /\ UNCHANGED <<hashed, overlay>>

\* propagate returns: the queue is empty
PropagateDone ==
    /\ pc = "propagate"
    /\ propagate_queue = <<>>
    /\ pc' = "select"
    /\ UNCHANGED <<config, tiles, elevation, temperature, grid, propagate_queue,
                   backtrack_count, cur, terrain, resets>>
    /\ UNCHANGED <<hashed, overlay>>

\* generate, lines 267-276, and self.terrain = wfc.generate()
Build ==
    /\ pc = "build"
    /\ terrain' = BuildTerrain
    /\ pc' = "done"
    /\ UNCHANGED <<config, tiles, elevation, temperature, grid, propagate_queue,
                   backtrack_count, cur, resets>>
    /\ UNCHANGED <<hashed, overlay>>

(* ---------------------------- generate_rivers ------------------------- *)
\* variant in which add_civilizations calls apply_terrain_rules again
NextStageReentering(stage) ==
    IF stage = "done" THEN "rivers"
    ELSE IF stage = "rivers" THEN "cities"
    ELSE IF stage = "cities" THEN "placing"
    ELSE "wfc"

\* generate_full_world: the call that follows the one that returns
NextStage(stage) ==
    IF stage = "done" THEN "rivers"
    ELSE IF stage = "rivers" THEN "cities"
    ELSE IF stage = "cities" THEN "placing"
    ELSE "finished"

\* generate_rivers: find_sources, shuffle, the first min(len, 5) are selected.
\* The shuffled order is drawn source by source as the loop takes them.
StartRivers ==
    /\ pc = "done"
    /\ sources' = find_sources("mountain")
    /\ untraced' = find_sources("mountain")
    /\ budget' = SelectedCount(Cardinality(find_sources("mountain")))
    /\ rivers' = <<>>
    /\ pc' = NextStage(pc)
    /\ UNCHANGED <<config, tiles, elevation, temperature, grid, propagate_queue,
                   backtrack_count, cur, terrain, resets, hashed, erosion,
                   min_length, cityvars, seedvars>>

\* generate_rivers: one round of `for source in selected_sources`
TraceRiver ==
    /\ pc = "rivers"
    /\ budget > 0
    /\ \E source \in untraced :
          LET path == find_river_path(source, "water")
          IN  /\ untraced' = untraced \ {source}
              /\ IF Accepted(path)
                 THEN /\ rivers' = Append(rivers, path)
                      /\ erosion' = ErodedBy(path)
                      /\ terrain' = RelabelledBy(path)
                 ELSE UNCHANGED <<rivers, erosion, terrain>>
    /\ budget' = budget - 1
    /\ UNCHANGED <<config, tiles, elevation, temperature, grid, propagate_queue,
                   backtrack_count, pc, cur, resets, hashed, sources,
                   min_length, cityvars, seedvars>>

\* generate_rivers returns: self.rivers = rivers
FinishRivers ==
    /\ pc = "rivers"
    /\ budget = 0
    /\ sources' = {}
    /\ untraced' = {}
    /\ pc' = NextStage(pc)
    /\ UNCHANGED <<config, tiles, elevation, temperature, grid, propagate_queue,
                   backtrack_count, cur, terrain, resets, hashed, erosion,
                   rivers, budget, min_length, cityvars, seedvars>>

RiverNext == StartRivers \/ TraceRiver \/ FinishRivers

(* ----------------------------- place_cities --------------------------- *)
\* candidates = find_city_candidates(); placed_cities = []; shuffle
StartCities ==
    /\ pc = "cities"
    /\ candidates' = find_city_candidates
    /\ unexamined' = find_city_candidates
    /\ pc' = NextStage(pc)
    /\ UNCHANGED <<config, tiles, elevation, temperature, grid, propagate_queue,
                   backtrack_count, cur, terrain, resets, hashed, rivervars,
                   city_rules, placed_cities, seedvars>>

\* one round of the loop over the shuffled candidates: the next candidate is
\* any one not yet examined
PlaceCity ==
    /\ pc = "placing"
    /\ ~CapReached(placed_cities)
    /\ \E candidate \in unexamined :
          /\ unexamined' = unexamined \ {candidate}
          /\ IF check_distance_to_other_cities(candidate, placed_cities)
             THEN /\ terrain' = Settled(candidate)
                  /\ placed_cities' = placed_cities \cup {candidate}
             ELSE UNCHANGED <<terrain, placed_cities>>
    /\ UNCHANGED <<config, tiles, elevation, temperature, grid, propagate_queue,
                   backtrack_count, pc, cur, resets, hashed, rivervars,
                   city_rules, candidates, seedvars>>

\* the loop ends, by the break or with the list exhausted; return terrain
FinishCities ==
    /\ pc = "placing"
    /\ CapReached(placed_cities) \/ unexamined = {}
    /\ pc' = NextStage(pc)
    /\ UNCHANGED <<config, tiles, elevation, temperature, grid, propagate_queue,
                   backtrack_count, cur, terrain, resets, hashed, rivervars,
                   cityvars, seedvars>>

CityNext == StartCities \/ PlaceCity \/ FinishCities

Next ==
    \/ LoadConfig
    \/ SynthesizeFields
    \/ StartWFC
    \/ Select
    \/ Collapse
    \/ PropagateStep
    \/ PropagateDone
    \/ Build

Spec == Init /\ [][Next]_vars

\* the driver is a sequential loop: it always takes its next step
LiveSpec == Spec /\ WF_vars(Next)

(* ------------------- RiverGenerator on its own arrays ------------------ *)
RiverCells == (0 .. RiverWidth - 1) \X (0 .. RiverHeight - 1)

\* elevation fields: rising with the distance to the water cell, flat, or
\* sloping along one axis
RiverFields(water) ==
    (IF water = NoCell THEN {}
     ELSE {[c \in RiverCells |-> Manhattan(c, water) + b] : b \in {0, 1}})
    \cup {[c \in RiverCells |-> 1],
          [c \in RiverCells |-> c[1]],
          [c \in RiverCells |-> c[2] + 1]}

\* source cells: a single one or, on a map without water, one more than
\* generate_rivers selects
SourceSets(water) ==
    {{s} : s \in RiverCells}
    \cup (IF water = NoCell
          THEN {{c \in RiverCells : c[2] * RiverWidth + c[1] <= MaxSources}}
          ELSE {})

\* RiverGenerator(elevation, terrain) is built and generate_rivers is about
\* to be called
RiverInit ==
    /\ config = << GrassTile, MountainTile >>
    /\ tiles = TilesOf(config)
    /\ temperature = [c \in RiverCells |-> 0]
    /\ grid = NoGrid
    /\ propagate_queue = <<>>
    /\ backtrack_count = 0
    /\ pc = "done"
    /\ cur = NoCell
    /\ resets = 0
    /\ hashed = {}
    /\ \E water \in RiverCells \cup {NoCell} : \E M \in SourceSets(water) :
          /\ elevation \in RiverFields(water)
          /\ terrain = [c \in RiverCells |->
                           IF c = water THEN "water"
                           ELSE IF c \in M THEN "mountain" ELSE "grass"]
    /\ NoRivers(RiverCells)
    /\ min_length \in 1 .. MaxMinLength
    /\ NoCities
    /\ NoSeed

RiverSpec == RiverInit /\ [][RiverNext]_vars

(* ------------------ CivilizationPlacer on its own map ------------------ *)
CityCells == (0 .. CityWidth - 1) \X (0 .. CityHeight - 1)

\* the grass cells: the whole map, or three cells side by side
GrassSets ==
    {CityCells}
    \cup {{c \in CityCells : c[2] = 0 /\ lo <= c[1] /\ c[1] <= lo + 2} :
              lo \in 0 .. CityWidth - 3}

MinDistances == {0, 2, 5}

ResourceSets == {{}, {"water"}}

\* CivilizationPlacer(config, terrain) is built and place_cities is about to
\* be called
CityInit ==
    /\ config = << GrassTile, MountainTile >>
    /\ tiles = TilesOf(config)
    /\ elevation = [c \in CityCells |-> 0]
    /\ temperature = [c \in CityCells |-> 0]
    /\ grid = NoGrid
    /\ propagate_queue = <<>>
    /\ backtrack_count = 0
    /\ pc = "cities"
    /\ cur = NoCell
    /\ resets = 0
    /\ hashed = {}
    /\ \E water \in CityCells \cup {NoCell} : \E G \in GrassSets :
          terrain = [c \in CityCells |->
                        IF c = water THEN "water"
                        ELSE IF c \in G THEN "grass" ELSE "mountain"]
    /\ NoRivers(CityCells)
    /\ min_length = DefaultMinLength
    /\ city_rules \in [min_distance : MinDistances,
                       required_resources : ResourceSets]
    /\ candidates = {}
    /\ unexamined = {}
    /\ placed_cities = {}
    /\ NoSeed

CitySpec == CityInit /\ [][CityNext]_vars

(* ------------------------- generate_full_world ------------------------- *)
\* the configuration file read by load_config: tiles and civilization_rules
PipelineRules ==
    {[min_distance |-> 2, required_resources |-> {"mountain"}]}

\* WorldGenerator(config_path, width, height) is being constructed
PipelineInit ==
    /\ config = << GrassTile, MountainTile >>
    /\ tiles = <<>>
    /\ elevation = [c \in Cells |-> 0]
    /\ temperature = [c \in Cells |-> 0]
    /\ grid = NoGrid
    /\ propagate_queue = <<>>
    /\ backtrack_count = 0
    /\ pc = "load"
    /\ cur = NoCell
    /\ terrain = [c \in Cells |-> "ocean"]
    /\ resets = 0
    /\ hashed = {}
    /\ NoRivers(Cells)
    /\ min_length = DefaultMinLength
    /\ city_rules \in PipelineRules
    /\ candidates = {}
    /\ unexamined = {}
    /\ placed_cities = {}
    /\ NoSeed

PipelineNext == Next \/ RiverNext \/ CityNext

PipelineSpec == PipelineInit /\ [][PipelineNext]_vars

(* --------------- two runs in two processes, one seed ------------------ *)
\* the draws of the seeded generator: free while the first run consumes
\* them, the same again in the second run
DrawsAt(i) == IF run = 1 THEN 0 .. UResolution - 1 ELSE {rng[i]}

\* collapse_cell after np.random.seed(seed)
SeededCollapse ==
    /\ pc = "collapse"
    /\ IF CollapseFails(cur)
       THEN /\ CollapseCell({})
            /\ UNCHANGED <<rng, draw_no>>
       ELSE \E u \in DrawsAt(draw_no + 1) :
               /\ CollapseCell({DrawnTile(cur, u)})
               /\ rng' = IF run = 1 THEN Append(rng, u) ELSE rng
               /\ draw_no' = draw_no + 1
    /\ UNCHANGED <<rivervars, cityvars, hash_order, run, first_terrain>>

\* a second process is started with the same seed, configuration and fields
Rerun ==
    /\ pc = "done"
    /\ run = 1
    /\ first_terrain' = terrain
    /\ run' = 2
    /\ draw_no' = 0
    /\ hash_order' \in Orders(DOMAIN tiles)
    /\ terrain' = [c \in Cells |-> "ocean"]
    /\ pc' = "wfc"
    /\ UNCHANGED <<config, tiles, elevation, temperature, grid, propagate_queue,
                   backtrack_count, cur, resets, hashed, rivervars, cityvars,
                   rng>>

DetInit ==
    /\ config = << GrassTile, MountainTile >>
    /\ tiles = TilesOf(config)
    /\ elevation = [c \in Cells |-> 0]
    /\ temperature = Climate([c \in Cells |-> 0])
    /\ grid = NoGrid
    /\ propagate_queue = <<>>
    /\ backtrack_count = 0
    /\ pc = "wfc"
    /\ cur = NoCell
    /\ terrain = [c \in Cells |-> "ocean"]
    /\ resets = 0
    /\ hashed = {}
    /\ NoRivers(Cells)
    /\ min_length = DefaultMinLength
    /\ NoCities
    /\ hash_order \in Orders({config[i].name : i \in DOMAIN config})
    /\ rng = <<>>
    /\ draw_no = 0
    /\ run = 1
    /\ first_terrain = <<>>

DetNext ==
    \/ StartWFC
    \/ Select
    \/ SeededCollapse
    \/ PropagateStep
    \/ PropagateDone
    \/ Build
    \/ Rerun

DetSpec == DetInit /\ [][DetNext]_vars

(* ------------- collapse_cell handed a cell without tiles --------------- *)
\* a caller of collapse_cell picks a cell that has no tile left, which the
\* scan of get_min_entropy_cell never returns
SelectContradiction ==
    /\ pc = "select"
    /\ \E c \in Cells :
          /\ ~grid[c].collapsed
          /\ grid[c].possible = {}
          /\ cur' = c
    /\ pc' = "collapse"
    /\ UNCHANGED <<config, tiles, elevation, temperature, grid, propagate_queue,
                   backtrack_count, terrain, resets>>
    /\ UNCHANGED <<hashed, overlay>>

\* TerrainWFC(config, width, height) with its fields attached
FailInit ==
    /\ config \in {<< LakeTile, BeachTile >>, << WaterTile, BeachTile, GrassTile >>}
    /\ tiles = TilesOf(config)
    /\ \E odd \in Cells :
          /\ elevation = [c \in Cells |-> IF c = odd THEN 1 ELSE 0]
          /\ temperature = Climate(elevation)
    /\ grid = NoGrid
    /\ propagate_queue = <<>>
    /\ backtrack_count = 0
    /\ pc = "wfc"
    /\ cur = NoCell
    /\ terrain = [c \in Cells |-> "ocean"]
    /\ resets = 0
    /\ hashed = {}
    /\ NoRivers(Cells)
    /\ min_length = DefaultMinLength
    /\ NoCities
    /\ NoSeed

FailNext ==
    \/ StartWFC
    \/ Select
    \/ SelectContradiction
    \/ Collapse
    \/ PropagateStep
    \/ PropagateDone
    \/ Build

FailSpec == FailInit /\ [][FailNext]_vars

\* the driver is sequential code: it always takes its next step
FairFailSpec == FailSpec /\ WF_vars(FailNext)

(* ----------------------------- properties ------------------------------ *)
Done == pc = "done"

Solving == pc \in {"select", "collapse", "propagate", "build", "done"}

\* a cell whose possible set is empty and that is not collapsed
Contradiction(c) == ~grid[c].collapsed /\ grid[c].possible = {}

\* the tile's elevation and temperature ranges contain the cell's field values
InRanges(tile, c) == ~ElevOut(tiles[tile], c) /\ ~TempOut(tiles[tile], c)

\* the cell's field values are outside every configured tile's ranges
OutOfEveryRange(c) == \A t \in DOMAIN tiles : ~InRanges(t, c)

\* no tile has an empty range and every required tile name is defined
ValidConfig(cfg) ==
    \A i \in DOMAIN cfg :
        /\ "elevation" \in DOMAIN cfg[i] =>
              cfg[i].elevation.min <= cfg[i].elevation.max
        /\ "temperature" \in DOMAIN cfg[i] =>
              cfg[i].temperature.min <= cfg[i].temperature.max
        /\ \A rule \in RulesOf(cfg[i]) :
              rule.required \subseteq {cfg[j].name : j \in DOMAIN cfg}

\* C1: when generate has returned, every cell of the map holds a concrete
\* tile name: a collapsed cell its single possible tile, every other cell
\* the default tile "grass"; no cell is unassigned.
C1_DenseTerrain ==
    Done =>
        \A c \in Cells :
            /\ terrain[c] # None
            /\ terrain[c] \in DOMAIN tiles \cup {"grass"}
            /\ grid[c].collapsed => grid[c].possible = {terrain[c]}
            /\ ~grid[c].collapsed => terrain[c] = "grass"

C1_Witness ==
    /\ Done
    /\ \E c \in Cells : grid[c].collapsed /\ terrain[c] = "beach"
    /\ \E c \in Cells : ~grid[c].collapsed /\ terrain[c] = "grass"

\* C2: for a valid configuration, in the returned map every collapsed cell's
\* tile has elevation and temperature ranges that contain the cell's field
\* values.
C2_CollapsedInRange ==
    (Done /\ ValidConfig(config)) => \A c \in Cells : grid[c].collapsed => InRanges(terrain[c], c)

\* C3: for a valid configuration, in the returned map every collapsed cell
\* whose tile declares an adjacency rule has at least min_count 4-connected
\* neighbours holding a tile of the rule's required set.
C3_AdjacencySatisfied ==
    (Done /\ ValidConfig(config)) =>
        \A c \in Cells :
            grid[c].collapsed =>
                \A rule \in RulesOf(tiles[terrain[c]]) :
                    Cardinality({n \in Neighbors(c) : terrain[n] \in rule.required})
                        >= rule.min_count

\* C4: generate terminates: the driver loop always reaches the end of
\* generate, for every configuration and every field.
C4_Terminates == <>Done

C4_Witness ==
    /\ Done
    /\ backtrack_count = 0
    /\ \E c \in Cells : Contradiction(c)
    /\ \E c \in Cells : grid[c].collapsed

\* C5: for a valid configuration, a run of generate that met a contradiction
\* (a cell left with an empty possible set) has recovered from it by a full
\* reset before it returns.
C5_ContradictionResets ==
    (Done /\ ValidConfig(config) /\ \E c \in Cells : Contradiction(c)) => resets > 0

C7_OddCellDefaulted ==
    (Done /\ ValidConfig(config)) =>
        \A c \in Cells :
            (/\ OutOfEveryRange(c)
             /\ \A d \in Cells \ {c} : ~OutOfEveryRange(d))
            => ~grid[c].collapsed /\ terrain[c] = "grass"

\* "beach" requires at least one neighbouring "water" and no tile "water" is
\* configured
BeachWithoutWater ==
    /\ "beach" \in DOMAIN tiles
    /\ "water" \notin DOMAIN tiles
    /\ \E rule \in RulesOf(tiles["beach"]) :
          rule.type = "adjacent" /\ rule.required = {"water"} /\ rule.min_count = 1

\* C8: with "beach" requiring one neighbouring "water" on a grid that has no
\* water, no cell is ever collapsed to "beach".
C8_NoBeachWithoutWater ==
    (Solving /\ BeachWithoutWater) =>
        \A c \in Cells : ~(grid[c].collapsed /\ grid[c].possible = {"beach"})

\* a single tile type without adjacency rules whose ranges contain every
\* field value
SingleUnconstrained ==
    /\ Cardinality(DOMAIN tiles) = 1
    /\ \A t \in DOMAIN tiles :
          ~HasRules(tiles[t]) /\ \A c \in Cells : InRanges(t, c)

\* C9: with a single unconstrained tile type the solver never fails a
\* collapse, never resets, never leaves a cell without a possible tile, and
\* returns a map in which every cell is collapsed to that tile.
C9_SingleTileConverges ==
    (Solving /\ SingleUnconstrained) =>
        /\ resets = 0
        /\ backtrack_count = 0
        /\ \A c \in Cells : ~Contradiction(c)
        /\ Done => \A c \in Cells :
                      grid[c].collapsed /\ terrain[c] \in DOMAIN tiles

C9_Witness ==
    /\ Done
    /\ SingleUnconstrained
    /\ \A c \in Cells : grid[c].collapsed /\ terrain[c] = "plain"
    /\ \E c \in Cells : elevation[c] # 0

\* C10: a configuration with an empty range or an undefined required tile is
\* rejected when it is loaded: nothing past the load runs.
C10_InvalidConfigRejected == ~ValidConfig(config) => pc = "load"

\* the sources generate_rivers has taken so far
Traced == sources \ untraced

\* the path is nowhere rising on the stored elevations
NonIncreasing(path) ==
    \A i \in DOMAIN path :
        i < Len(path) => ~ElevLess(Stored(path[i]), Stored(path[i + 1]))

\* C12: every path find_river_path returns for a source still to be traced
\* is non-increasing in elevation, on the elevation field as it is when the
\* trace starts.
C12_PathNonIncreasing ==
    pc = "rivers" =>
        \A s \in untraced : NonIncreasing(find_river_path(s, "water"))

C12_Witness ==
    /\ pc = "rivers"
    /\ rivers # <<>>
    /\ \E s \in untraced :
          /\ Len(find_river_path(s, "water")) >= 3
          /\ \E i \in DOMAIN find_river_path(s, "water") :
                erosion[find_river_path(s, "water")[i]].n95 > 0

\* the round of generate_rivers that traced a source
TraceStep == pc = "rivers" /\ budget' = budget - 1

TracedSource == CHOOSE s \in untraced : s \notin untraced'

\* C13: when an accepted path is eroded, the stored elevation of each of its
\* cells becomes exactly 0.9 times what it was before the trace.
C13_PathCellsScaledOnce ==
    [][(TraceStep /\ rivers' # rivers) =>
          \A c \in SeqSet(find_river_path(TracedSource, "water")) :
              ElevEqual([elev |-> elevation'[c], n90 |-> erosion'[c].n90,
                         n95 |-> erosion'[c].n95],
                        [elev |-> elevation[c], n90 |-> erosion[c].n90 + 1,
                         n95 |-> erosion[c].n95])]_vars

\* the elevation is a strictly increasing function of the Manhattan distance
\* to the single water cell
GradientTo(water) ==
    /\ \A c \in Shape : terrain[c] = "water" <=> c = water
    /\ \A c, d \in Shape :
          /\ Manhattan(c, water) < Manhattan(d, water)
                => ElevLess(Stored(c), Stored(d))
          /\ Manhattan(c, water) = Manhattan(d, water)
                => ElevEqual(Stored(c), Stored(d))

\* C14: on a field that rises strictly with the Manhattan distance to a
\* single water cell, the path from any cell ends at the water cell after
\* exactly that many moves.
C14_GradientPath ==
    \A water \in Shape :
        (pc = "rivers" /\ GradientTo(water)) =>
            \A s \in Shape :
                LET path == find_river_path(s, "water")
                IN  /\ path[Len(path)] = water
                    /\ Len(path) - 1 = Manhattan(s, water)

C14_Witness ==
    /\ pc = "rivers"
    /\ \E water \in Shape :
          /\ GradientTo(water)
          /\ \E s \in untraced :
                Manhattan(s, water) >= 3 /\ terrain[s] = "mountain"

\* C15: a traced path shorter than min_length leaves the river list, the
\* elevation field and the terrain map as they were.
C15_ShortPathDropped ==
    [][(TraceStep /\ Len(find_river_path(TracedSource, "water")) < min_length) =>
          /\ rivers' = rivers
          /\ elevation' = elevation
          /\ erosion' = erosion
          /\ terrain' = terrain]_vars

C15_Witness ==
    /\ pc = "rivers"
    /\ rivers = <<>>
    /\ \E s \in Traced :
          /\ Len(find_river_path(s, "water")) >= 2
          /\ Len(find_river_path(s, "water")) < min_length

\* C19: generate_rivers traces at most 5 sources, all of them cells of the
\* source type when they were selected; the river list has at most 5 paths
\* and each starts at a traced source.
C19_AtMostFiveSources ==
    /\ Len(rivers) <= MaxSources
    /\ pc = "rivers" =>
          /\ Cardinality(Traced) <= MaxSources
          /\ Cardinality(Traced) + budget <= MaxSources
          /\ \A s \in sources : terrain[s] \in {"mountain", "river"}
          /\ \A i \in DOMAIN rivers : rivers[i][1] \in Traced

C19_Witness ==
    /\ pc = "rivers"
    /\ budget = 0
    /\ Len(rivers) = MaxSources
    /\ Cardinality(sources) > MaxSources
    /\ untraced # {}

\* the candidates the loop of place_cities has looked at
Examined == candidates \ unexamined

\* C16: any two distinct placed settlements are at least min_distance apart
\* (Euclidean), whatever order the candidates are examined in.
C16_SettlementsApart ==
    \A a, b \in placed_cities :
        a # b => SquaredDistance(a, b)
                    >= city_rules.min_distance * city_rules.min_distance

C16_Witness ==
    /\ pc = "finished"
    /\ city_rules.min_distance >= 2
    /\ Cardinality(placed_cities) >= 2
    /\ Examined \ placed_cities # {}

\* three candidates near a resource, pairwise within distance 2, and
\* min_distance 5
ClusterOfThree ==
    /\ Cardinality(candidates) = 3
    /\ city_rules.required_resources # {}
    /\ city_rules.min_distance = 5
    /\ \A a, b \in candidates : SquaredDistance(a, b) <= 2 * 2

\* C17: from a cluster of three resource-adjacent candidates pairwise within
\* distance 2, with min_distance 5, place_cities places exactly one
\* settlement, for every shuffle order.
C17_OneFromCluster ==
    (pc = "finished" /\ ClusterOfThree) => Cardinality(placed_cities) = 1

C17_Witness ==
    /\ pc = "finished"
    /\ ClusterOfThree
    /\ Cardinality(placed_cities) = 1
    /\ Examined = candidates

\* C18: place_cities never places more than 3 settlements, examines no
\* candidate once the third is placed, and with fewer than 3 placed it has
\* examined every candidate when it returns.
C18_AtMostThreeSettlements ==
    /\ [](Cardinality(placed_cities) <= MaxCities)
    /\ []((pc = "finished" /\ Cardinality(placed_cities) < MaxCities)
             => unexamined = {})
    /\ [][Cardinality(placed_cities) = MaxCities
             => unexamined' = unexamined]_vars

C18_Witness ==
    /\ pc = "finished"
    /\ Cardinality(placed_cities) = MaxCities
    /\ unexamined # {}

\* the stage of generate_full_world a position belongs to: 0 construction,
\* 1 fields, 2 constraint solve, 3 rivers, 4 settlements, 5 returned
StageRank(p) ==
    IF p = "load" THEN 0
    ELSE IF p = "fields" THEN 1
    ELSE IF p \in {"wfc", "select", "collapse", "propagate", "build"} THEN 2
    ELSE IF p \in {"done", "rivers"} THEN 3
    ELSE IF p \in {"cities", "placing"} THEN 4
    ELSE 5

\* C20: generate_full_world runs fields, constraint solve, rivers and
\* settlements in this order, each once and each to its end before the next:
\* every step stays in its stage or moves to the next one, never back and
\* never past one.
C20_StagesInOrder ==
    [][StageRank(pc') \in {StageRank(pc), StageRank(pc) + 1}]_vars

C20_Witness ==
    /\ pc = "finished"
    /\ placed_cities # {}
    /\ \E c \in Cells : terrain[c] = "mountain"
    /\ \E c \in Cells : elevation[c] > 0

\* C11: two runs with the same seed, configuration and dimensions end with
\* the same terrain map.
C11_SameSeedSameTerrain ==
    (run = 2 /\ pc = "done") => terrain = first_terrain

\* how often the first n accepted rivers run through cell c
RECURSIVE BedHits(_, _)
BedHits(c, n) ==
    IF n = 0 THEN 0
    ELSE Cardinality({k \in DOMAIN rivers[n] : rivers[n][k] = c}) + BedHits(c, n - 1)

\* how often cell c is a 4-neighbour of a cell of the first n accepted rivers
RECURSIVE BankHits(_, _)
BankHits(c, n) ==
    IF n = 0 THEN 0
    ELSE Cardinality({k \in DOMAIN rivers[n] : c \in ShapeNeighbors(rivers[n][k])})
            + BankHits(c, n - 1)

\* C21: whenever a source is about to be traced, the elevation and the
\* terrain carry the whole erosion of every river accepted so far, and the
\* trace reads them in that state.
C21_ErosionBeforeNextTrace ==
    /\ [](pc = "rivers" =>
             \A c \in Shape :
                 /\ erosion[c].n90 = BedHits(c, Len(rivers))
                 /\ erosion[c].n95 = BankHits(c, Len(rivers))
                 /\ terrain[c] = "river" <=> BedHits(c, Len(rivers)) > 0)
    /\ [][(TraceStep /\ rivers' # rivers) =>
             rivers'[Len(rivers')] = find_river_path(TracedSource, "water")]_vars

\* on a flat field a second river of more than one cell exists only because
\* of the erosion of the first
C21_Witness ==
    /\ pc = "rivers"
    /\ \A c, d \in Shape : elevation[c] = elevation[d]
    /\ Len(rivers) >= 2
    /\ Len(rivers[2]) >= 2
    /\ terrain[rivers[2][2]] = "river"

\* C22: in every state of generate, a collapsed cell has exactly one
\* possible tile.
C22_CollapsedIsSingleton ==
    \A c \in Cells : grid[c].collapsed => Cardinality(grid[c].possible) = 1

C22_Witness ==
    /\ pc = "propagate"
    /\ Cardinality(DOMAIN tiles) >= 2
    /\ \E c \in Cells : grid[c].collapsed
    /\ \E c \in Cells : Contradiction(c)
    /\ \E c \in Cells : ~grid[c].collapsed /\ Cardinality(grid[c].possible) >= 2

\* every adjacency rule of the tile can still be met at cell c: enough
\* neighbours are uncollapsed or collapsed to a tile of the required set
Satisfiable(tile, c) ==
    \A rule \in RulesOf(tiles[tile]) :
        rule.type = "adjacent" =>
            Cardinality({n \in Neighbors(c) :
                            ~grid[n].collapsed \/ TileOf(n) \in rule.required})
                >= rule.min_count

\* C23: for a valid configuration, when generate is about to collapse a
\* cell, the cell's possible set holds no tile whose ranges exclude the
\* cell's field values and no tile whose adjacency rule cannot be met any
\* more.
C23_FilteredBeforeCollapse ==
    (pc = "collapse" /\ ValidConfig(config)) =>
        \A t \in grid[cur].possible : InRanges(t, cur) /\ Satisfiable(t, cur)

\* the cell propagate takes from the queue
Dequeued == Head(propagate_queue)

\* C24: propagate removes from a dequeued uncollapsed cell exactly the tiles
\* one of whose adjacency rules cannot be met any more (fewer than min_count
\* neighbours uncollapsed or collapsed to a required tile).
C24_RemovesExactlyUnsatisfiable ==
    [][(pc = "propagate" /\ propagate_queue # <<>> /\ ~grid[Dequeued].collapsed) =>
          grid'[Dequeued].possible =
              {t \in grid[Dequeued].possible : Satisfiable(t, Dequeued)}]_vars

\* the cells get_min_entropy_cell may return: not collapsed, with a tile left
Open(c) == ~grid[c].collapsed /\ grid[c].possible # {}

\* row-major position: y outer, x inner
RowMajor(c) == c[2] * Width + c[1]

\* C25: get_min_entropy_cell returns an uncollapsed cell with a non-empty
\* possible set of the least size among such cells, the first of them in
\* row-major order; it returns no cell exactly when no such cell exists.
C25_MinEntropyCell ==
    Solving =>
        LET cell_pos == get_min_entropy_cell
        IN  /\ cell_pos = NoCell <=> \A c \in Cells : ~Open(c)
            /\ cell_pos # NoCell =>
                  /\ cell_pos \in Cells
                  /\ Open(cell_pos)
                  /\ \A c \in Cells :
                        Open(c) =>
                            /\ Cardinality(grid[cell_pos].possible)
                                  <= Cardinality(grid[c].possible)
                            /\ Cardinality(grid[cell_pos].possible)
                                  = Cardinality(grid[c].possible)
                               => RowMajor(cell_pos) <= RowMajor(c)

\* the scan meets a tie and a cell with more tiles than the one it returns
C25_Witness ==
    /\ pc = "select"
    /\ get_min_entropy_cell # NoCell
    /\ \E c, d \in Cells :
          /\ Open(c) /\ Open(d)
          /\ Cardinality(grid[c].possible)
                > Cardinality(grid[get_min_entropy_cell].possible)
          /\ d # get_min_entropy_cell
          /\ Cardinality(grid[d].possible)
                = Cardinality(grid[get_min_entropy_cell].possible)

\* the in-bounds cells one step left, right, up or down of c
FourConnected(c) == {n \in Cells : Manhattan(n, c) = 1}

\* what a sequence added behind the first n entries
AddedBehind(q, n) == SubSeq(q, n + 1, Len(q))

\* C26: a successful collapse_cell narrows the cell to one tile that was
\* possible before, marks it collapsed, appends exactly its in-bounds
\* 4-connected neighbours to the queue, and changes no other cell.
C26_CollapseEffect ==
    [][(pc = "collapse" /\ pc' = "propagate") =>
          /\ \E t \in grid[cur].possible :
                grid'[cur] = [possible |-> {t}, collapsed |-> TRUE]
          /\ \A c \in Cells \ {cur} : grid'[c] = grid[c]
          /\ SubSeq(propagate_queue', 1, Len(propagate_queue)) = propagate_queue
          /\ Len(propagate_queue')
                = Len(propagate_queue) + Cardinality(FourConnected(cur))
          /\ SeqSet(AddedBehind(propagate_queue', Len(propagate_queue)))
                = FourConnected(cur)]_vars

C26_Witness ==
    /\ pc = "propagate"
    /\ cur # <<0, 0>>
    /\ grid[cur].collapsed
    /\ Cardinality(DOMAIN tiles) >= 2
    /\ SeqSet(propagate_queue) = FourConnected(cur)
    /\ \E c \in Cells : ~grid[c].collapsed /\ grid[c].possible # {}

\* C27: collapse_cell on a cell without a possible tile fails and changes
\* nothing: the grid and the queue stay as they are, the cell stays
\* uncollapsed and empty, and the driver counts the failure.
C27_EmptyCellFails ==
    [][(/\ pc = "collapse"
        /\ grid[cur].possible = {}
        /\ backtrack_count < backtrack_limit) =>
          /\ grid' = grid
          /\ propagate_queue' = propagate_queue
          /\ ~grid'[cur].collapsed /\ grid'[cur].possible = {}
          /\ backtrack_count' = backtrack_count + 1
          /\ pc' = "select"]_vars

C27_Witness ==
    /\ pc = "select"
    /\ backtrack_count > 0
    /\ cur # NoCell
    /\ Contradiction(cur)
    /\ \E c \in Cells : grid[c].collapsed

\* C29: whenever generate selects the next cell the propagation queue is
\* empty, also after a failed collapse and after a reset.
C29_QueueEmptyAtSelect == pc = "select" => propagate_queue = <<>>

C29_Witness ==
    /\ pc = "select"
    /\ propagate_queue = <<>>
    /\ resets > 0
    /\ backtrack_count > 0
    /\ \E c \in Cells : grid[c].collapsed

\* the failed collapse that exceeds the limit
ResetStep ==
    /\ pc = "collapse"
    /\ grid[cur].possible = {}
    /\ backtrack_count >= backtrack_limit

\* C30: a full reset leaves every cell with all configured tiles possible
\* and not collapsed, the queue empty and the failure counter 0, and does
\* not touch the elevation and temperature fields.
C30_ResetRestoresInitial ==
    [][ResetStep =>
          /\ \A c \in Cells :
                grid'[c].possible = {config[i].name : i \in DOMAIN config}
                /\ ~grid'[c].collapsed
          /\ propagate_queue' = <<>>
          /\ backtrack_count' = 0
          /\ elevation' = elevation
          /\ temperature' = temperature
          /\ pc' = "select"]_vars

C30_Witness ==
    /\ pc = "select"
    /\ resets > 0
    /\ backtrack_count = 0
    /\ propagate_queue = <<>>
    /\ \A c \in Cells : grid[c].possible = DOMAIN tiles /\ ~grid[c].collapsed
    /\ \E c \in Cells : elevation[c] # 0

\* C28: a round of propagate never adds a tile to a cell, lengthens the
\* queue only when a possible set became strictly smaller, and propagate
\* always empties its queue.
C28_PropagationShrinks ==
    /\ [][(pc = "propagate" /\ pc' = "propagate") =>
             /\ \A c \in Cells : grid'[c].possible \subseteq grid[c].possible
             /\ Len(propagate_queue') >= Len(propagate_queue) =>
                   \E c \in Cells : grid'[c].possible # grid[c].possible]_vars
    /\ (pc = "propagate" ~> propagate_queue = <<>>)

C28_Witness ==
    /\ pc = "propagate"
    /\ Len(propagate_queue) >= 3
    /\ \E c \in Cells :
          /\ ~grid[c].collapsed
          /\ grid[c].possible # {}
          /\ grid[c].possible # DOMAIN tiles

\* the cells a trace standing on path[i] may move to: in bounds, one step
\* away, not yet on the path and strictly lower
StepChoices(path, i) ==
    {n \in Shape :
        /\ Manhattan(n, path[i]) = 1
        /\ \A j \in 1 .. i : path[j] # n
        /\ ElevLess(Stored(n), Stored(path[i]))}

\* C31: every move of find_river_path goes to an unvisited in-bounds
\* 4-neighbour that is strictly lower than the current cell and lowest among
\* such neighbours; the trace stops exactly when there is none or when the
\* cell just entered has the terminus type.
C31_SteepestDescent ==
    pc = "rivers" =>
        \A s \in untraced :
            LET path == find_river_path(s, "water")
                n == Len(path)
            IN  /\ \A i \in 1 .. n - 1 :
                      /\ path[i + 1] \in StepChoices(path, i)
                      /\ \A m \in StepChoices(path, i) :
                            ~ElevLess(Stored(m), Stored(path[i + 1]))
                      /\ i > 1 => terrain[path[i]] # "water"
                /\ \/ StepChoices(path, n) = {}
                   \/ n > 1 /\ terrain[path[n]] = "water"

\* a trace with a step that had two lower neighbours of different height
C31_Witness ==
    /\ pc = "rivers"
    /\ \E s \in untraced :
          LET path == find_river_path(s, "water")
          IN  /\ Len(path) >= 2
              /\ \E i \in 1 .. Len(path) - 1 :
                    \E m \in StepChoices(path, i) :
                        ElevLess(Stored(path[i + 1]), Stored(m))

\* the path accepted last: the one apply_river_erosion was called with
ErodedPath == rivers[Len(rivers)]

\* C32: eroding an accepted path relabels exactly its cells to 'river',
\* source and terminus included; the elevation changes only on path cells
\* and their in-bounds 4-neighbours, and every cell takes one factor 0.95
\* for each path cell it is a 4-neighbour of.
C32_ErosionFrame ==
    [][(TraceStep /\ rivers' # rivers) =>
          \A c \in Shape :
              LET on == \E i \in DOMAIN ErodedPath' : ErodedPath'[i] = c
                  beside == {i \in DOMAIN ErodedPath' : Manhattan(ErodedPath'[i], c) = 1}
              IN  /\ terrain'[c] = IF on THEN "river" ELSE terrain[c]
                  /\ elevation'[c] = elevation[c]
                  /\ erosion'[c].n95 = erosion[c].n95 + Cardinality(beside)
                  /\ ~on => erosion'[c].n90 = erosion[c].n90
                  /\ (~on /\ beside = {}) => erosion'[c] = erosion[c]]_vars

\* a river of three cells that ended on the water cell of a gradient, with a
\* bank cell next to two of its cells
C32_Witness ==
    /\ pc = "rivers"
    /\ Len(rivers) = 1
    /\ Len(rivers[1]) >= 3
    /\ elevation[rivers[1][Len(rivers[1])]] = 0
    /\ \A i \in DOMAIN rivers[1] : terrain[rivers[1][i]] = "river"
    /\ \E c \in Shape : terrain[c] # "river" /\ erosion[c] = [n90 |-> 0, n95 |-> 2]

\* C33: find_city_candidates returns exactly the 'grass' cells for which
\* every required resource lies on an in-bounds cell at most 3 columns and 3
\* rows away; without required resources every 'grass' cell is a candidate.
C33_CandidatesExact ==
    [][pc = "cities" =>
          /\ candidates' =
                {c \in Shape :
                    /\ terrain[c] = "grass"
                    /\ \A r \in city_rules.required_resources :
                          \E n \in Shape :
                              /\ Abs(n[1] - c[1]) <= 3
                              /\ Abs(n[2] - c[2]) <= 3
                              /\ terrain[n] = r}
          /\ city_rules.required_resources = {} =>
                candidates' = {c \in Shape : terrain[c] = "grass"}]_vars

\* a grass cell is left out because the water is four columns away
C33_Witness ==
    /\ pc = "placing"
    /\ placed_cities = {}
    /\ unexamined = candidates
    /\ city_rules.required_resources = {"water"}
    /\ candidates # {}
    /\ \E c \in Shape : terrain[c] = "grass" /\ c \notin candidates
    /\ \E c \in Shape : terrain[c] = "water"

CollapsedCells == {c \in Cells : grid[c].collapsed}

\* C34: in generate, collapse_cell never fails on the cell that
\* get_min_entropy_cell returned: the failure counter and the number of
\* resets stay 0, and every pass through collapse_cell collapses exactly one
\* cell that was not collapsed before, so there are at most width x height
\* such passes.
C34_CollapseNeverFails ==
    /\ [](/\ backtrack_count = 0
          /\ resets = 0
          /\ pc = "collapse" =>
                /\ cur \in Cells
                /\ ~grid[cur].collapsed
                /\ ~CollapseFails(cur))
    /\ [][pc = "collapse" =>
             /\ pc' = "propagate"
             /\ CollapsedCells' = CollapsedCells \cup {cur}
             /\ Cardinality(CollapsedCells') = Cardinality(CollapsedCells) + 1
             /\ Cardinality(CollapsedCells') <= Width * Height]_vars

\* the scan passed over a cell without possible tiles, and a cell was
\* collapsed to a tile whose ranges do not contain its field values
C34_Witness ==
    /\ pc = "build"
    /\ backtrack_count = 0
    /\ resets = 0
    /\ \E c \in Cells : ~grid[c].collapsed /\ grid[c].possible = {}
    /\ \E c \in Cells :
          /\ grid[c].collapsed
          /\ \E t \in grid[c].possible :
                ElevOut(tiles[t], c) \/ TempOut(tiles[t], c)

\* every collapsed neighbour of c holds a tile of the required set of each
\* adjacency rule of the tile
Compatible(tile, c, g) ==
    \A n \in Neighbors(c) :
        g[n].collapsed =>
            \A rule \in RulesOf(tiles[tile]) :
                rule.type = "adjacent" =>
                    (CHOOSE t \in g[n].possible : TRUE) \in rule.required

\* propagate is not running: generate is between two calls of it
PropagateReturned ==
    \/ pc \in {"collapse", "build"}
    \/ pc = "select" /\ tiles # <<>>
    \/ pc = "propagate" /\ propagate_queue = <<>>

\* C35: each time propagate has returned, every tile still possible at an
\* uncollapsed cell is compatible with all collapsed 4-connected neighbours
\* of the cell (each holds a tile of the required set of each adjacency rule
\* of the tile); so the tile a cell is collapsed to is compatible with the
\* neighbours collapsed before it.
C35_PropagationFixpoint ==
    /\ [](PropagateReturned =>
             \A c \in Cells :
                 ~grid[c].collapsed =>
                     \A t \in grid[c].possible : Compatible(t, c, grid))
    /\ [][(pc = "collapse" /\ grid'[cur].collapsed) =>
             \A t \in grid'[cur].possible : Compatible(t, cur, grid)]_vars

\* propagate has removed "beach" next to a collapsed "grass", and elsewhere a
\* cell was collapsed to "beach" next to a collapsed "water"
C35_Witness ==
    /\ PropagateReturned
    /\ \E c \in Cells, n \in Cells :
          /\ n \in Neighbors(c)
          /\ ~grid[c].collapsed
          /\ grid[c].possible # {}
          /\ "beach" \in DOMAIN tiles
          /\ "beach" \notin grid[c].possible
          /\ grid[n].collapsed
          /\ grid[n].possible = {"grass"}
    /\ \E c \in Cells, n \in Cells :
          /\ n \in Neighbors(c)
          /\ grid[c].collapsed /\ grid[c].possible = {"beach"}
          /\ grid[n].collapsed /\ grid[n].possible = {"water"}

\* C36: a collapsed cell is stable: no later step of the same generate call
\* changes its possible set or its collapsed flag; the one tile it holds is a
\* tile that was possible when it was collapsed, and the returned map holds
\* that tile at the cell.
C36_CollapsedStable ==
    /\ [][\A c \in Cells : grid[c].collapsed => grid'[c] = grid[c]]_vars
    /\ [][pc = "collapse" =>
             \E chosen \in grid[cur].possible :
                 grid' = [grid EXCEPT ![cur] =
                             [possible |-> {chosen}, collapsed |-> TRUE]]]_vars
    /\ [](pc = "done" =>
             \A c \in Cells :
                 grid[c].collapsed => grid[c].possible = {terrain[c]})

\* a "beach" cell that was collapsed first kept its tile although a
\* neighbour was collapsed to "grass" afterwards
C36_Witness ==
    /\ pc = "done"
    /\ \E c \in Cells, n \in Cells :
          /\ n \in Neighbors(c)
          /\ grid[c].collapsed /\ terrain[c] = "beach"
          /\ grid[n].collapsed /\ terrain[n] = "grass"

\* C37: every tile name of the map generate returns is a configured tile
\* name or the literal "grass"; a cell that ended uncollapsed with an empty
\* possible set holds "grass", also when no tile named "grass" is configured.
C37_ConfiguredOrGrass ==
    pc = "done" =>
        \A c \in Cells :
            /\ terrain[c] \in {config[i].name : i \in DOMAIN config} \cup {"grass"}
            /\ (~grid[c].collapsed /\ grid[c].possible = {}) =>
                   terrain[c] = "grass"

\* "grass" was written although the configuration has no tile of that name
C37_Witness ==
    /\ pc = "done"
    /\ "grass" \notin {config[i].name : i \in DOMAIN config}
    /\ \E c \in Cells :
          /\ ~grid[c].collapsed
          /\ grid[c].possible = {}
          /\ terrain[c] = "grass"
    /\ \E c \in Cells : grid[c].collapsed /\ terrain[c] # "grass"

\* the path starts at start, visits no coordinate twice, and each of its
\* coordinates is an in-bounds 4-connected neighbour of the one before it
SimplePathFrom(start, path) ==
    /\ Len(path) >= 1
    /\ path[1] = start
    /\ \A i \in DOMAIN path : path[i] \in Shape
    /\ \A i, j \in DOMAIN path : i # j => path[i] # path[j]
    /\ \A i \in DOMAIN path :
          i < Len(path) => Manhattan(path[i], path[i + 1]) = 1

\* C38: every path find_river_path builds is a simple 4-connected path that
\* starts at the given source; the trace ends, after at most as many cells as
\* the grid has.
C38_SimplePath ==
    /\ pc = "rivers" =>
          \A s \in untraced :
              /\ SimplePathFrom(s, find_river_path(s, "water"))
              /\ Len(find_river_path(s, "water")) <= Cardinality(Shape)
    /\ \A k \in DOMAIN rivers : SimplePathFrom(rivers[k][1], rivers[k])

\* a trace of four cells or more that turns a corner
C38_Witness ==
    /\ pc = "rivers"
    /\ \E s \in untraced :
          LET path == find_river_path(s, "water")
          IN  /\ Len(path) >= 4
              /\ \E i \in 1 .. Len(path) - 1 : path[i][1] # path[i + 1][1]
              /\ \E i \in 1 .. Len(path) - 1 : path[i][2] # path[i + 1][2]

\* C39: greedy placement is maximal: when place_cities has returned with
\* fewer than 3 settlements, every candidate that was not placed lies at a
\* Euclidean distance below min_distance from at least one settlement.
C39_GreedyMaximal ==
    (pc = "finished" /\ Cardinality(placed_cities) < MaxCities) =>
        \A c \in candidates \ placed_cities :
            \E city \in placed_cities :
                SquaredDistance(c, city)
                    < city_rules.min_distance * city_rules.min_distance

\* two settlements exactly min_distance apart, with a rejected candidate
\* between them
C39_Witness ==
    /\ pc = "finished"
    /\ Cardinality(placed_cities) = 2
    /\ candidates \ placed_cities # {}
    /\ \E a, b \in placed_cities :
          /\ a # b
          /\ SquaredDistance(a, b)
                = city_rules.min_distance * city_rules.min_distance

\* C40: place_cities changes the terrain only at the cells it accepts: a
\* cell whose tile changes was a "grass" candidate, becomes "ancient_city"
\* and is the settlement placed by that step; every other cell keeps its
\* tile, so the settlements are exactly the "ancient_city" cells and every
\* other candidate is still "grass".
C40_OnlySettlementsRelabelled ==
    /\ [][(pc = "cities" \/ pc = "placing") =>
             \A c \in Shape :
                 (terrain'[c] # terrain[c]) =>
                     (/\ pc = "placing"
                      /\ terrain[c] = "grass"
                      /\ c \in candidates
                      /\ c \notin placed_cities
                      /\ terrain'[c] = "ancient_city"
                      /\ placed_cities' = placed_cities \cup {c})]_vars
    /\ [](pc \in {"placing", "finished"} =>
             /\ placed_cities \subseteq candidates
             /\ \A c \in Shape :
                    terrain[c] = "ancient_city" <=> c \in placed_cities
             /\ \A c \in candidates \ placed_cities : terrain[c] = "grass")

\* two settlements placed, with a rejected candidate, a grass cell that was
\* no candidate and a resource cell left as they were
C40_Witness ==
    /\ pc = "finished"
    /\ Cardinality(placed_cities) = 2
    /\ \A c \in placed_cities : terrain[c] = "ancient_city"
    /\ \E c \in candidates \ placed_cities : terrain[c] = "grass"
    /\ \E c \in Shape \ candidates : terrain[c] = "grass"
    /\ \E c \in Shape : terrain[c] = "water"

====
